---- MODULE Spec2Model ----
(***************************************************************************)
(* Model of the voice-conversation WebSocket server (streaming variant,    *)
(* src/unnamed/part_000 lines 346-760): energy VAD on incoming PCM frames, *)
(* the silence timer, the sentence-streaming pipeline, the echo gate and   *)
(* its release timers, for one client connection.                         *)
(*                                                                         *)
(* One action is one run-to-completion segment of the Node.js event loop:  *)
(* a socket handler, a timer callback, or the continuation of an async     *)
(* function after one of its awaits settles.                               *)
(***************************************************************************)
EXTENDS Integers, Sequences, FiniteSets, TLC

\* ------------------------------------------------------------------ bounds
MaxFrames == 4       \* binary frames received over the connection's life
MaxGreetings == 1    \* greeting control messages received
TickMs == 8000       \* granularity of the wall clock (longer than any timer)
MaxTokens == 3       \* tokens a streamed reply is divided into
MaxTurns == 7        \* turn-pairs of a stored conversation
MaxConns == 2        \* client connections to the voice server
MaxClock == 1        \* milliseconds that pass while connections open
MaxConnFrames == 2   \* frames received over all connections
MaxRelayFrames == 2  \* frames the relay receives from each side
MaxTexts == 2        \* text frames a voice session receives

\* ------------------------------------------------------- program constants
SILENCE_DURATION_MS == 800
MAX_RECORDING_MS == 15000
GATE_RELEASE_MS == 500
CHUNK_SIZE == 4096
MIN_TRANSCRIPT_LEN == 2

\* VAD_THRESHOLD = 0.02 = VadNum / VadDen, on samples normalised by 32768.
\* rms > T  <=>  sumSquares * (VadDen/2)^2 > numSamples * (32768/2)^2 * VadNum^2
\* (both sides of  sumSquares/numSamples > (T*32768)^2  scaled by 1/4).  The
\* two products are compared as pairs of 16-bit-shifted high and low parts so
\* that every intermediate value stays inside 32-bit integers.
VadNum == 1
VadDen == 50
Int16Half == 16384

\* ---------------------------------------------------------------- helpers
\* The sum of the squares of samples[lo..hi], added up by halves so that the
\* evaluation of a long frame stays shallow.
RECURSIVE SumSquaresIn(_, _, _)
SumSquaresIn(samples, lo, hi) ==
  IF lo > hi THEN 0
  ELSE IF lo = hi THEN samples[lo] * samples[lo]
  ELSE LET mid == (lo + hi) \div 2 IN
       SumSquaresIn(samples, lo, mid) + SumSquaresIn(samples, mid + 1, hi)

SumSquares(samples) == SumSquaresIn(samples, 1, Len(samples))

\* A PCM frame is [samples: sequence of int16, odd: 1 when a trailing unpaired
\* byte follows the samples, else 0].
ByteLength(pcm) == 2 * Len(pcm.samples) + pcm.odd

Word == 65536

\* sumSquares * (VadDen/2)^2 = ScaledHigh * Word + ScaledLow
ScaledHigh(pcm) ==
  LET ss == SumSquares(pcm.samples)
      d2 == (VadDen \div 2) * (VadDen \div 2)
  IN  (ss \div Word) * d2 + ((ss % Word) * d2) \div Word

ScaledLow(pcm) ==
  LET ss == SumSquares(pcm.samples)
      d2 == (VadDen \div 2) * (VadDen \div 2)
  IN  ((ss % Word) * d2) % Word

\* numSamples * (32768/2)^2 * VadNum^2 = ThresholdHigh * Word
ThresholdHigh(pcm) ==
  (ByteLength(pcm) \div 2) * ((Int16Half * Int16Half) \div Word)
    * VadNum * VadNum

\* calculateRMS(buffer) > VAD_THRESHOLD.  An empty buffer returns 0; a 1-byte
\* buffer has numSamples = 0, 0/0 = NaN, and NaN > T is false.
AboveThresholdStrict(pcm) ==
  LET numSamples == ByteLength(pcm) \div 2
  IN  /\ ByteLength(pcm) # 0
      /\ numSamples # 0
      /\ \/ ScaledHigh(pcm) > ThresholdHigh(pcm)
         \/ ScaledHigh(pcm) = ThresholdHigh(pcm) /\ ScaledLow(pcm) > 0

IsSpeech(pcm) == AboveThresholdStrict(pcm)

Loud  == [samples |-> <<1000, -1000>>, odd |-> 0]
Quiet == [samples |-> <<3, -2>>, odd |-> 1]
FramePayloads == {Loud, Quiet}

\* A frame of 625 samples, one of them half of full scale and the others 0:
\* its RMS is sqrt(0.25 / 625), which is VAD_THRESHOLD, in exact arithmetic
\* and in IEEE doubles alike.
AtThreshold == [samples |-> [i \in 1..625 |-> IF i = 1 THEN 16384 ELSE 0], odd |-> 0]

\* text is a sequence of one-character strings
IsSpace(c) == c \in {" ", "\n", "\t"}

RECURSIVE TrimLeft(_)
TrimLeft(s) ==
  IF s = <<>> THEN s
  ELSE IF IsSpace(Head(s)) THEN TrimLeft(Tail(s)) ELSE s

RECURSIVE TrimRight(_)
TrimRight(s) ==
  IF s = <<>> THEN s
  ELSE IF IsSpace(s[Len(s)]) THEN TrimRight(SubSeq(s, 1, Len(s) - 1)) ELSE s

Trim(s) == TrimRight(TrimLeft(s))

RECURSIVE Concat(_)
Concat(ss) == IF ss = <<>> THEN <<>> ELSE Head(ss) \o Concat(Tail(ss))

\* -------------------------------------------------------------- variables
VARIABLES
  inSessions,     \* sessions.has(sessionId)
  history,        \* session.history
  audioBuffer,    \* session.audioBuffer: frames [id, pcm]
  isSpeaking,     \* session.isSpeaking
  isAiSpeaking,   \* session.isAiSpeaking
  silenceTimer,   \* session.silenceTimer: 0 (null) or the handle of a timeout
  pendingSilence, \* handles of silence timeouts pending in the event loop
  pendingRelease, \* owners of isAiSpeaking=false timeouts pending in the loop
  pipes,          \* invocations of processAudioPipeline, in call order
  greets,         \* invocations of the greeting handler, in call order
  sent,           \* arguments of ws.send / socket.send, per subject
  frameSeq,       \* number of binary frames received so far
  recordingMs,    \* wall-clock time since isSpeaking last became true
  systemPrompt,   \* session.systemPrompt
  texts,          \* the text frames received so far, in order
  \* generation requests built from a stored conversation
  turns,          \* the stored conversation: turn-pairs [user, ai] of texts
  request,        \* the `messages` of the latest chat.completions.create
  \* the session registry under several connections
  clock,          \* Date.now()
  connState,      \* per connection: "none", "open" or "closed"
  connSession,    \* per connection: its sessionId
  sessionMap,     \* the `sessions` Map: sessionId -> session record
  connFrames,     \* number of frames received over all connections
  \* the realtime relay of one client connection
  clientState,    \* ws.readyState: "open", "closing" or "closed"
  upstreamState,  \* openaiWs.readyState
  isOpenAIConnected,
  toUpstream,     \* arguments of openaiWs.send, in order
  toClient,       \* arguments of ws.send, in order
  closeCalls,     \* arguments of the relay's ws.close calls, in order
  upstreamCloses, \* number of 'close' events of openaiWs
  clientFrames,   \* number of frames received from the client
  fromClient,     \* the frames received from the client, in order
  fromUpstream,   \* the frames received from the upstream socket, in order
  \* one request to POST /transcribe
  upFile,         \* req.file as multer leaves it
  upPc,           \* where the handler is: "idle", "toFile", "stt", "done"
  upResponse,     \* the response sent: status and body
  upCalls         \* the external calls made for the request, in order

sessionVars == <<inSessions, history, audioBuffer, isSpeaking, isAiSpeaking,
                 silenceTimer, pendingSilence, pendingRelease, pipes, greets,
                 sent, frameSeq, recordingMs, systemPrompt, texts>>
controlVars == <<systemPrompt, texts>>
chatVars == <<turns, request>>
connVars == <<clock, connState, connSession, sessionMap, connFrames>>
relayVars == <<clientState, upstreamState, isOpenAIConnected, toUpstream,
               toClient, closeCalls, upstreamCloses, clientFrames,
               fromClient, fromUpstream>>

uploadVars == <<upFile, upPc, upResponse, upCalls>>

vars == <<sessionVars, chatVars, connVars, relayVars, uploadVars>>

\* What the handlers of one voice session never touch.
outsideSession == <<chatVars, connVars, relayVars, uploadVars>>

Msg(t, p, x) == [type |-> t, p |-> p, text |-> x]

\* POST /transcribe before a request: `req.file` undefined, nothing sent.
NoFile == [present |-> FALSE]
NoResponse == [status |-> 0, body |-> "none"]

\* Texts are sequences of parts.
BASE_SYSTEM_PROMPT == << "BASE_SYSTEM_PROMPT" >>

\* `sent` keeps, for every utterance p >= 1, every greeting -g and the VAD (0),
\* the messages about it in the order they were passed to send.
PipeIds == 1..(MaxFrames \div 2)
GreetIds == 1..MaxGreetings
SentKeys == {0} \cup PipeIds \cup {0 - g : g \in GreetIds}
ConnIds == 1..MaxConns

Init ==
  /\ inSessions = TRUE
  /\ history = <<>>
  /\ audioBuffer = <<>>
  /\ isSpeaking = FALSE
  /\ isAiSpeaking = FALSE
  /\ silenceTimer = 0
  /\ pendingSilence = {}
  /\ pendingRelease = {}
  /\ pipes = <<>>
  /\ greets = <<>>
  /\ sent = [k \in SentKeys |-> <<>>]
  /\ frameSeq = 0
  /\ recordingMs = 0
  /\ systemPrompt = BASE_SYSTEM_PROMPT
  /\ texts = <<>>
  /\ turns = <<>>
  /\ request = [endpoint |-> "none", messages |-> <<>>]
  /\ clock = 0
  /\ connState = [c \in ConnIds |-> "none"]
  /\ connSession = [c \in ConnIds |-> <<>>]
  /\ sessionMap = <<>>
  /\ connFrames = 0
  /\ clientState = "open"
  /\ upstreamState = "connecting"
  /\ isOpenAIConnected = FALSE
  /\ toUpstream = <<>>
  /\ toClient = <<>>
  /\ closeCalls = <<>>
  /\ upstreamCloses = 0
  /\ clientFrames = 0
  /\ fromClient = <<>>
  /\ fromUpstream = <<>>
  /\ upFile = NoFile
  /\ upPc = "idle"
  /\ upResponse = NoResponse
  /\ upCalls = <<>>

\* ------------------------------------------------------------ ws.on('message')
Send(log, m) == [log EXCEPT ![m.p] = Append(@, m)]

\* Variant of GateClosed without the echo-gate check.
GateClosed_NoCheck == FALSE

\* `if (session.isAiSpeaking) return;`
GateClosed == isAiSpeaking

\* Variant of MayArmSilenceTimer that does not look at the handle.
MayArmSilenceTimer_NoHandleTest == isSpeaking

\* `if (session.isSpeaking && !session.silenceTimer)`
MayArmSilenceTimer == isSpeaking /\ silenceTimer = 0

\* Variant of StartsSpeech that announces every speech frame.
StartsSpeech_Always == TRUE

\* `if (!session.isSpeaking)` in the speech branch
StartsSpeech == ~isSpeaking

\* Variant of ClearTimeout that only forgets the handle.
ClearTimeout_Forgotten(pending, handle) == pending

\* `clearTimeout(session.silenceTimer)`: the timeouts still pending afterwards
ClearTimeout(pending, handle) == pending \ {handle}

\* Variant of SpeakingAfterFire that leaves the flag as it was.
SpeakingAfterFire_Kept == isSpeaking

\* `session.isSpeaking = false;` in the timeout's callback
SpeakingAfterFire == FALSE

\* Variant of HandleAfterFire that keeps the stale handle.
HandleAfterFire_Kept == silenceTimer

\* `session.silenceTimer = null;` in the timeout's callback
HandleAfterFire == 0

\* Variant of BufferAfterPush that stores only the frames classified as speech.
BufferAfterPush_SpeechOnly(pcm) ==
  IF IsSpeech(pcm)
  THEN Append(audioBuffer, [id |-> frameSeq + 1, pcm |-> pcm])
  ELSE audioBuffer

\* `session.audioBuffer.push(pcmChunk);` ahead of the VAD logic.  The `id`
\* field numbers the frame by arrival; the program stores only the bytes.
BufferAfterPush(pcm) ==
  Append(audioBuffer, [id |-> frameSeq + 1, pcm |-> pcm])

\* Binary branch of the message handler.
ReceiveFrame(pcm) ==
  /\ frameSeq < MaxFrames
  /\ UNCHANGED outsideSession
  /\ UNCHANGED controlVars
  /\ frameSeq' = frameSeq + 1
  /\ UNCHANGED <<inSessions, history, isAiSpeaking, pendingRelease, pipes,
                 greets>>
  /\ IF ~inSessions \/ GateClosed
     THEN UNCHANGED <<audioBuffer, isSpeaking, silenceTimer, pendingSilence,
                      sent, recordingMs>>
     ELSE
       /\ audioBuffer' = BufferAfterPush(pcm)
       /\ IF IsSpeech(pcm)
          THEN /\ isSpeaking' = TRUE
               /\ sent' = IF StartsSpeech
                          THEN Send(sent, Msg("vad.speech_start", 0, <<>>))
                          ELSE sent
               /\ recordingMs' = IF isSpeaking THEN recordingMs ELSE 0
               /\ silenceTimer' = 0
               /\ pendingSilence' = ClearTimeout(pendingSilence, silenceTimer)
          ELSE /\ IF MayArmSilenceTimer
                  THEN /\ silenceTimer' = frameSeq + 1
                       /\ pendingSilence' = pendingSilence \cup {frameSeq + 1}
                  ELSE UNCHANGED <<silenceTimer, pendingSilence>>
               /\ UNCHANGED <<isSpeaking, sent, recordingMs>>

\* ------------------------------------------------------ processAudioPipeline
\* `handOffSeq` records how many frames had arrived when the invocation began,
\* `ttsCalls` the texts passed to speech.create so far, and `failures` the
\* external calls of this invocation that rejected.
NewPipe(audio) ==
  [pc |-> "toFile", audioData |-> audio, handOffSeq |-> frameSeq,
   userText |-> <<>>, stream |-> <<>>, fullText |-> <<>>,
   sentenceBuffer |-> <<>>, ttsText |-> <<>>, remaining |-> <<>>,
   isFirstAudioChunk |-> TRUE, ttsCalls |-> <<>>, failures |-> {}]

\* `if (!session || session.audioBuffer.length === 0) return;`
PipelineReturnsEarly == ~inSessions \/ audioBuffer = <<>>

\* Variant of BufferAfterHandOff that leaves the frames in place.
BufferAfterHandOff_NotCleared == audioBuffer

\* `session.audioBuffer = [];` before the first await
BufferAfterHandOff == <<>>

\* The callback given to setTimeout(..., SILENCE_DURATION_MS), including the
\* synchronous prefix of processAudioPipeline up to `await OpenAI.toFile`.
SilenceTimerFire(t) ==
  /\ t \in pendingSilence
  /\ UNCHANGED outsideSession
  /\ UNCHANGED controlVars
  /\ pendingSilence' = pendingSilence \ {t}
  /\ isSpeaking' = SpeakingAfterFire
  /\ silenceTimer' = HandleAfterFire
  /\ sent' = Send(sent, Msg("vad.speech_end", 0, <<>>))
  /\ recordingMs' = 0
  /\ IF PipelineReturnsEarly
     THEN UNCHANGED <<audioBuffer, pipes>>
     ELSE /\ pipes' = Append(pipes, NewPipe(audioBuffer))
          /\ audioBuffer' = BufferAfterHandOff
  /\ UNCHANGED <<inSessions, history, isAiSpeaking, pendingRelease, greets,
                 frameSeq>>

\* ws.on('close')
Close ==
  /\ inSessions
  /\ UNCHANGED outsideSession
  /\ UNCHANGED controlVars
  /\ inSessions' = FALSE
  /\ UNCHANGED <<history, audioBuffer, isSpeaking, isAiSpeaking, silenceTimer,
                 pendingSilence, pendingRelease, pipes, greets, sent, frameSeq,
                 recordingMs>>

\* The wall clock advances by TickMs.  Every timeout of the program is shorter
\* than TickMs, so a pending timeout fires before the clock can advance.
TimersShorterThanTick ==
  SILENCE_DURATION_MS < TickMs /\ GATE_RELEASE_MS < TickMs

Tick ==
  /\ TimersShorterThanTick
  /\ UNCHANGED outsideSession
  /\ UNCHANGED controlVars
  /\ isSpeaking
  /\ pendingSilence = {}
  /\ pendingRelease = {}
  /\ recordingMs <= MAX_RECORDING_MS
  /\ recordingMs' = recordingMs + TickMs
  /\ UNCHANGED <<inSessions, history, audioBuffer, isSpeaking, isAiSpeaking,
                 silenceTimer, pendingSilence, pendingRelease, pipes, greets,
                 sent, frameSeq>>

\* ----------------------------------------------- external services' answers
Transcripts == { <<>>, <<" ", "a">>, <<"h", "i">> }
Replies == { << <<"A", "!">>, <<" ", "B">> >>, << <<"C">> >> }
TtsLengths == { 5000 }
GreetingReplies == { <<"H", "i", ".">> }

SetPipe(p, r) == [pipes EXCEPT ![p] = r]

PipeUnchanged ==
  UNCHANGED <<inSessions, audioBuffer, isSpeaking, silenceTimer,
              pendingSilence, frameSeq, recordingMs, greets, controlVars,
              outsideSession>>

\* `await OpenAI.toFile(...)` resolved; transcriptions.create is called.
ToFileDone(p) ==
  /\ p \in DOMAIN pipes /\ pipes[p].pc = "toFile"
  /\ pipes' = SetPipe(p, [pipes[p] EXCEPT !.pc = "stt"])
  /\ PipeUnchanged
  /\ UNCHANGED <<history, isAiSpeaking, pendingRelease, sent>>

\* `await OpenAI.toFile(...)` rejected: the await is outside the try block, so
\* the promise returned by processAudioPipeline rejects and nobody handles it.
ToFileFail(p) ==
  /\ p \in DOMAIN pipes /\ pipes[p].pc = "toFile"
  /\ pipes' = SetPipe(p, [pipes[p] EXCEPT !.pc = "unhandled"])
  /\ PipeUnchanged
  /\ UNCHANGED <<history, isAiSpeaking, pendingRelease, sent>>

\* Variant of TranscriptIgnored that only rejects the empty transcript.
TranscriptIgnored_OnlyEmpty(userText) == userText = <<>>

\* `if (!userText || userText.length < 2)`
TranscriptIgnored(userText) == Len(userText) < MIN_TRANSCRIPT_LEN

\* Transcription resolved.
SttDone(p, transcript) ==
  LET userText == Trim(transcript) IN
  /\ p \in DOMAIN pipes /\ pipes[p].pc = "stt"
  /\ PipeUnchanged
  /\ UNCHANGED <<isAiSpeaking, pendingRelease>>
  /\ IF TranscriptIgnored(userText)
     THEN /\ pipes' = SetPipe(p, [pipes[p] EXCEPT !.pc = "ignored",
                                                  !.userText = userText])
          /\ UNCHANGED <<history, sent>>
     ELSE /\ sent' = Send(sent, Msg("assistant.thinking", p, userText))
          /\ history' = Append(history,
                          [role |-> "user", content |-> userText, utt |-> p])
          /\ pipes' = SetPipe(p, [pipes[p] EXCEPT !.pc = "gen",
                                                  !.userText = userText])

\* Variant of GateAfterCatch that leaves the flag as the failure found it.
GateAfterCatch_Kept == isAiSpeaking

\* The catch block of processAudioPipeline: `session.isAiSpeaking = false;`
GateAfterCatch == FALSE

\* Variant of HistoryAfterCatch that records the reply received so far.
HistoryAfterCatch_Partial(p) ==
  IF pipes[p].fullText = <<>> THEN history
  ELSE Append(history,
         [role |-> "assistant", content |-> pipes[p].fullText, utt |-> p])

\* The catch block does not touch session.history.
HistoryAfterCatch(p) == history

Catch(p, step) ==
  /\ sent' = Send(sent, Msg("error", p, <<>>))
  /\ isAiSpeaking' = GateAfterCatch
  /\ pipes' = SetPipe(p, [pipes[p] EXCEPT !.pc = "failed",
                                          !.failures = @ \cup {step}])
  /\ history' = HistoryAfterCatch(p)
  /\ PipeUnchanged
  /\ UNCHANGED pendingRelease

SttFail(p) ==
  /\ p \in DOMAIN pipes /\ pipes[p].pc = "stt"
  /\ Catch(p, "stt")

\* chat.completions.create({stream: true}) resolved with the token stream.
GenDone(p, reply) ==
  /\ p \in DOMAIN pipes /\ pipes[p].pc = "gen"
  /\ pipes' = SetPipe(p, [pipes[p] EXCEPT !.pc = "stream", !.stream = reply,
                            !.fullText = <<>>, !.sentenceBuffer = <<>>,
                            !.isFirstAudioChunk = TRUE])
  /\ isAiSpeaking' = TRUE
  /\ PipeUnchanged
  /\ UNCHANGED <<history, pendingRelease, sent>>

GenFail(p) ==
  /\ p \in DOMAIN pipes /\ pipes[p].pc = "gen"
  /\ Catch(p, "gen")

\* /[.!?\n]+/
IsDelimiter(c) == c \in {".", "!", "?", "\n"}

\* match.index (1-based), 0 when there is no match
MatchIndex(s) ==
  IF \E i \in 1..Len(s) : IsDelimiter(s[i])
  THEN CHOOSE i \in 1..Len(s) :
         IsDelimiter(s[i]) /\ \A j \in 1..(i - 1) : ~IsDelimiter(s[j])
  ELSE 0

\* match.index + match[0].length, as a count of characters
DelimiterIndex(s) ==
  LET i == MatchIndex(s) IN
  CHOOSE e \in i..Len(s) :
    /\ \A j \in i..e : IsDelimiter(s[j])
    /\ e = Len(s) \/ ~IsDelimiter(s[e + 1])

\* Variant of RemainingAfter that starts at the match's last character.
RemainingAfter_FromDelimiter(buffer, delimiterIndex) ==
  SubSeq(buffer, delimiterIndex, Len(buffer))

\* `sentenceBuffer.substring(delimiterIndex)`
RemainingAfter(buffer, delimiterIndex) ==
  SubSeq(buffer, delimiterIndex + 1, Len(buffer))

\* One iteration of `for await (const chunk of stream)`.
StreamChunk(p) ==
  /\ p \in DOMAIN pipes /\ pipes[p].pc = "stream" /\ pipes[p].stream # <<>>
  /\ LET r == pipes[p]
         content == Head(r.stream)
         full == r.fullText \o content
         buf == r.sentenceBuffer \o content
         rest == Tail(r.stream)
     IN
     IF content = <<>>
     THEN /\ pipes' = SetPipe(p, [r EXCEPT !.stream = rest])
          /\ UNCHANGED sent
     ELSE IF MatchIndex(buf) = 0
     THEN /\ pipes' = SetPipe(p, [r EXCEPT !.stream = rest, !.fullText = full,
                                    !.sentenceBuffer = buf])
          /\ UNCHANGED sent
     ELSE LET d == DelimiterIndex(buf)
              completeSentence == SubSeq(buf, 1, d)
              remaining == RemainingAfter(buf, d)
          IN IF Trim(completeSentence) # <<>>
             THEN /\ sent' = Send(sent, Msg("assistant.response.text", p, full))
                  /\ pipes' = SetPipe(p, [r EXCEPT !.stream = rest,
                                 !.fullText = full, !.sentenceBuffer = buf,
                                 !.ttsText = completeSentence,
                                 !.ttsCalls = Append(@, completeSentence),
                                 !.remaining = remaining, !.pc = "tts"])
             ELSE /\ pipes' = SetPipe(p, [r EXCEPT !.stream = rest,
                                 !.fullText = full,
                                 !.sentenceBuffer = remaining])
                  /\ UNCHANGED sent
  /\ PipeUnchanged
  /\ UNCHANGED <<history, isAiSpeaking, pendingRelease>>

\* The token stream's iterator throws.
StreamFail(p) ==
  /\ p \in DOMAIN pipes /\ pipes[p].pc = "stream"
  /\ Catch(p, "stream")

\* Lines 563-571: assistant turn, stream-end marker, gate-release timeout.
Finish(p, r, log) ==
  /\ history' = Append(history,
                  [role |-> "assistant", content |-> r.fullText, utt |-> p])
  /\ sent' = Send(log, Msg("assistant.audio.end", p, <<>>))
  /\ pendingRelease' = pendingRelease \cup {p}
  /\ pipes' = SetPipe(p, [r EXCEPT !.pc = "done", !.stream = <<>>,
                             !.sentenceBuffer = <<>>, !.ttsText = <<>>,
                             !.remaining = <<>>])

\* Variant of RemainderPending that drops what is left after the loop.
RemainderPending_Never(buffer) == FALSE

\* `if (sentenceBuffer.trim().length > 0)` after the token loop
RemainderPending(buffer) == Trim(buffer) # <<>>

\* The token stream ended.
StreamEnd(p) ==
  /\ p \in DOMAIN pipes /\ pipes[p].pc = "stream" /\ pipes[p].stream = <<>>
  /\ LET r == pipes[p] IN
     IF RemainderPending(r.sentenceBuffer)
     THEN /\ sent' = Send(sent, Msg("assistant.response.text", p, r.fullText))
          /\ pipes' = SetPipe(p, [r EXCEPT !.pc = "ttsFinal",
                                    !.ttsText = r.sentenceBuffer,
                                    !.ttsCalls = Append(@, r.sentenceBuffer)])
          /\ UNCHANGED <<history, pendingRelease>>
     ELSE Finish(p, r, sent)
  /\ PipeUnchanged
  /\ UNCHANGED isAiSpeaking

\* for (i = 0; i < audioBuffer.length; i += CHUNK_SIZE) socket.send(chunk)
NumChunks(len) == (len + CHUNK_SIZE - 1) \div CHUNK_SIZE

RECURSIVE SendChunks(_, _, _)
SendChunks(log, p, n) ==
  IF n = 0 THEN log ELSE SendChunks(Send(log, Msg("audio", p, <<>>)), p, n - 1)

\* generateAndStreamTTS after speech.create resolved: optional stream-start
\* marker, then the audio in chunks.
TTSOutput(log, p, isFirst, len) ==
  SendChunks(IF isFirst THEN Send(log, Msg("assistant.audio.start", p, <<>>))
             ELSE log, p, NumChunks(len))

\* Variant of FirstFlagAfterTTS that never lowers the flag.
FirstFlagAfterTTS_Kept == TRUE

\* `isFirstAudioChunk = false;` after the awaited synthesis
FirstFlagAfterTTS == FALSE

\* Continuation of the pipeline after `await generateAndStreamTTS(...)`.
AfterTTS(p, r, log) ==
  IF r.pc = "tts"
  THEN /\ pipes' = SetPipe(p, [r EXCEPT !.pc = "stream",
                                 !.isFirstAudioChunk = FirstFlagAfterTTS,
                                 !.sentenceBuffer = r.remaining,
                                 !.ttsText = <<>>, !.remaining = <<>>])
       /\ sent' = log
       /\ UNCHANGED <<history, pendingRelease>>
  ELSE Finish(p, r, log)

TtsDone(p, len) ==
  /\ p \in DOMAIN pipes /\ pipes[p].pc \in {"tts", "ttsFinal"}
  /\ AfterTTS(p, pipes[p],
              TTSOutput(sent, p, pipes[p].isFirstAudioChunk, len))
  /\ PipeUnchanged
  /\ UNCHANGED isAiSpeaking

\* speech.create rejected: generateAndStreamTTS catches and logs, and the
\* pipeline continues as if the sentence had been spoken.
TtsFail(p) ==
  /\ p \in DOMAIN pipes /\ pipes[p].pc \in {"tts", "ttsFinal"}
  /\ AfterTTS(p, [pipes[p] EXCEPT !.failures = @ \cup {"tts"}], sent)
  /\ PipeUnchanged
  /\ UNCHANGED isAiSpeaking

\* setTimeout(() => { session.isAiSpeaking = false; }, 500)
ReleaseTimerFire(o) ==
  /\ o \in pendingRelease
  /\ UNCHANGED outsideSession
  /\ UNCHANGED controlVars
  /\ pendingRelease' = pendingRelease \ {o}
  /\ isAiSpeaking' = FALSE
  /\ UNCHANGED <<inSessions, history, audioBuffer, isSpeaking, silenceTimer,
                 pendingSilence, pipes, greets, sent, frameSeq, recordingMs>>

\* ---------------------------------------------------------- greeting handler
\* The statements of the greeting branch (push of the mock user turn, direct
\* completion call, assistant turn, speech call, gate, release timeout) as
\* written in full at lines 292-322; lines 686-737 repeat them.  The `utt`
\* field of a history entry names the utterance (or, negated, the greeting)
\* that appended it; the program stores only role and content.
GreetUnchanged ==
  UNCHANGED <<inSessions, audioBuffer, isSpeaking, silenceTimer,
              pendingSilence, frameSeq, recordingMs, pipes, controlVars,
              outsideSession>>

\* Text branch, data.type === 'greeting', up to the first await.
ReceiveGreeting ==
  /\ Len(greets) < MaxGreetings
  /\ GreetUnchanged
  /\ UNCHANGED <<isAiSpeaking, pendingRelease, sent>>
  /\ IF ~inSessions
     THEN /\ greets' = Append(greets, [pc |-> "noSession", aiText |-> <<>>])
          /\ UNCHANGED history
     ELSE /\ greets' = Append(greets, [pc |-> "gen", aiText |-> <<>>])
          /\ history' = Append(history,
                 [role |-> "user",
                  content |-> <<"H", "e", "l", "l", "o">>,
                  utt |-> 0 - (Len(greets) + 1)])

GreetGenDone(g, aiText) ==
  /\ g \in DOMAIN greets /\ greets[g].pc = "gen"
  /\ history' = Append(history,
         [role |-> "assistant", content |-> aiText, utt |-> 0 - g])
  /\ sent' = Send(sent, Msg("assistant.response.text", 0 - g, aiText))
  /\ greets' = [greets EXCEPT ![g] = [pc |-> "tts", aiText |-> aiText]]
  /\ GreetUnchanged
  /\ UNCHANGED <<isAiSpeaking, pendingRelease>>

\* Either await of the greeting rejects: the surrounding catch only logs.
GreetFail(g) ==
  /\ g \in DOMAIN greets /\ greets[g].pc \in {"gen", "tts"}
  /\ greets' = [greets EXCEPT ![g] = [pc |-> "failed", aiText |-> <<>>]]
  /\ GreetUnchanged
  /\ UNCHANGED <<history, isAiSpeaking, pendingRelease, sent>>

GreetTtsDone(g) ==
  /\ g \in DOMAIN greets /\ greets[g].pc = "tts"
  /\ sent' = Send(Send(Send(sent, Msg("assistant.audio.start", 0 - g, <<>>)),
                       Msg("audio", 0 - g, <<>>)),
                  Msg("assistant.audio.end", 0 - g, <<>>))
  /\ isAiSpeaking' = TRUE
  /\ pendingRelease' = pendingRelease \cup {0 - g}
  /\ greets' = [greets EXCEPT ![g] = [pc |-> "done", aiText |-> <<>>]]
  /\ GreetUnchanged
  /\ UNCHANGED history

\* -------------------------------------------------------------------- Next
Next ==
  \/ \E pcm \in FramePayloads : ReceiveFrame(pcm)
  \/ \E t \in pendingSilence : SilenceTimerFire(t)
  \/ Close
  \/ Tick
  \/ \E p \in PipeIds : ToFileDone(p)
  \/ \E p \in PipeIds : ToFileFail(p)
  \/ \E p \in PipeIds : \E tr \in Transcripts : SttDone(p, tr)
  \/ \E p \in PipeIds : SttFail(p)
  \/ \E p \in PipeIds : \E reply \in Replies : GenDone(p, reply)
  \/ \E p \in PipeIds : GenFail(p)
  \/ \E p \in PipeIds : StreamChunk(p)
  \/ \E p \in PipeIds : StreamFail(p)
  \/ \E p \in PipeIds : StreamEnd(p)
  \/ \E p \in PipeIds : \E len \in TtsLengths : TtsDone(p, len)
  \/ \E p \in PipeIds : TtsFail(p)
  \/ \E o \in pendingRelease : ReleaseTimerFire(o)

Spec == Init /\ [][Next]_vars

\* The event loop runs every continuation whose awaited call has settled and
\* every timeout whose delay has passed; every awaited call settles.
PipeStep(p) ==
  \/ ToFileDone(p) \/ ToFileFail(p)
  \/ (\E tr \in Transcripts : SttDone(p, tr)) \/ SttFail(p)
  \/ (\E reply \in Replies : GenDone(p, reply)) \/ GenFail(p)
  \/ StreamChunk(p) \/ StreamFail(p) \/ StreamEnd(p)
  \/ (\E len \in TtsLengths : TtsDone(p, len)) \/ TtsFail(p)

\* The same session when the client's microphone yields loud frames and frames
\* whose RMS is exactly the threshold.
NextThreshold ==
  \/ \E pcm \in {Loud, AtThreshold} : ReceiveFrame(pcm)
  \/ \E t \in pendingSilence : SilenceTimerFire(t)
  \/ Close
  \/ Tick
  \/ \E p \in PipeIds : ToFileDone(p)
  \/ \E p \in PipeIds : ToFileFail(p)
  \/ \E p \in PipeIds : \E tr \in Transcripts : SttDone(p, tr)
  \/ \E p \in PipeIds : SttFail(p)
  \/ \E p \in PipeIds : \E reply \in Replies : GenDone(p, reply)
  \/ \E p \in PipeIds : GenFail(p)
  \/ \E p \in PipeIds : StreamChunk(p)
  \/ \E p \in PipeIds : StreamFail(p)
  \/ \E p \in PipeIds : StreamEnd(p)
  \/ \E p \in PipeIds : \E len \in TtsLengths : TtsDone(p, len)
  \/ \E p \in PipeIds : TtsFail(p)
  \/ \E o \in pendingRelease : ReleaseTimerFire(o)

SpecThreshold == Init /\ [][NextThreshold]_vars

SpecFair ==
  /\ Spec
  /\ \A p \in PipeIds : WF_vars(PipeStep(p))
  /\ WF_vars(\E o \in pendingRelease : ReleaseTimerFire(o))

\* A session with one utterance whose reply text is "Hello! How are you?",
\* streamed in any division into at most MaxTokens non-empty tokens.
Hello ==
  << "H", "e", "l", "l", "o", "!", " ", "H", "o", "w", " ",
     "a", "r", "e", " ", "y", "o", "u", "?" >>

RECURSIVE Divisions(_, _)
Divisions(s, k) ==
  IF s = <<>> THEN { <<>> }
  ELSE IF k = 0 THEN {}
  ELSE UNION { { << SubSeq(s, 1, i) >> \o d :
                   d \in Divisions(SubSeq(s, i + 1, Len(s)), k - 1) } :
               i \in 1..Len(s) }

HelloDivisions == Divisions(Hello, MaxTokens)

NextSplit ==
  \/ \E pcm \in FramePayloads : frameSeq < 2 /\ ReceiveFrame(pcm)
  \/ \E t \in pendingSilence : SilenceTimerFire(t)
  \/ Close
  \/ Tick
  \/ \E p \in PipeIds : ToFileDone(p)
  \/ \E p \in PipeIds : ToFileFail(p)
  \/ \E p \in PipeIds : \E tr \in Transcripts : SttDone(p, tr)
  \/ \E p \in PipeIds : SttFail(p)
  \/ \E p \in PipeIds : \E reply \in HelloDivisions : GenDone(p, reply)
  \/ \E p \in PipeIds : GenFail(p)
  \/ \E p \in PipeIds : StreamChunk(p)
  \/ \E p \in PipeIds : StreamFail(p)
  \/ \E p \in PipeIds : StreamEnd(p)
  \/ \E p \in PipeIds : \E len \in TtsLengths : TtsDone(p, len)
  \/ \E p \in PipeIds : TtsFail(p)
  \/ \E o \in pendingRelease : ReleaseTimerFire(o)

SpecSplit == Init /\ [][NextSplit]_vars

\* A session with one utterance whose reply text is "Hi! Ok. Go?", three
\* sentences, streamed in any division into at most MaxTokens non-empty
\* tokens.
ThreeSentences ==
  << "H", "i", "!", " ", "O", "k", ".", " ", "G", "o", "?" >>

NextSentences ==
  \/ \E pcm \in FramePayloads : frameSeq < 2 /\ ReceiveFrame(pcm)
  \/ \E t \in pendingSilence : SilenceTimerFire(t)
  \/ Close
  \/ Tick
  \/ \E p \in PipeIds : ToFileDone(p)
  \/ \E p \in PipeIds : ToFileFail(p)
  \/ \E p \in PipeIds : \E tr \in Transcripts : SttDone(p, tr)
  \/ \E p \in PipeIds : SttFail(p)
  \/ \E p \in PipeIds : \E reply \in Divisions(ThreeSentences, MaxTokens) : GenDone(p, reply)
  \/ \E p \in PipeIds : GenFail(p)
  \/ \E p \in PipeIds : StreamChunk(p)
  \/ \E p \in PipeIds : StreamFail(p)
  \/ \E p \in PipeIds : StreamEnd(p)
  \/ \E p \in PipeIds : \E len \in TtsLengths : TtsDone(p, len)
  \/ \E p \in PipeIds : TtsFail(p)
  \/ \E o \in pendingRelease : ReleaseTimerFire(o)

SpecSentences == Init /\ [][NextSentences]_vars

\* A session with one utterance whose reply text is "A.\nB. ": a line break
\* after the first sentence and a blank after the last, streamed in any
\* division into at most MaxTokens non-empty tokens.
TwoLines == << "A", ".", "\n", "B", ".", " " >>

NextLines ==
  \/ \E pcm \in FramePayloads : frameSeq < 2 /\ ReceiveFrame(pcm)
  \/ \E t \in pendingSilence : SilenceTimerFire(t)
  \/ Close
  \/ Tick
  \/ \E p \in PipeIds : ToFileDone(p)
  \/ \E p \in PipeIds : ToFileFail(p)
  \/ \E p \in PipeIds : \E tr \in Transcripts : SttDone(p, tr)
  \/ \E p \in PipeIds : SttFail(p)
  \/ \E p \in PipeIds : \E reply \in Divisions(TwoLines, MaxTokens) : GenDone(p, reply)
  \/ \E p \in PipeIds : GenFail(p)
  \/ \E p \in PipeIds : StreamChunk(p)
  \/ \E p \in PipeIds : StreamFail(p)
  \/ \E p \in PipeIds : StreamEnd(p)
  \/ \E p \in PipeIds : \E len \in TtsLengths : TtsDone(p, len)
  \/ \E p \in PipeIds : TtsFail(p)
  \/ \E o \in pendingRelease : ReleaseTimerFire(o)

SpecLines == Init /\ [][NextLines]_vars

\* The buffer length above which POST /chat-audio-stream looks for a sentence
\* end at the end of its buffer.
SOFT_LENGTH_CAP == 50

\* A session with one utterance whose reply is one more letter than that
\* length and holds no punctuation, streamed in any division into at most
\* MaxTokens non-empty tokens.
Unpunctuated == [i \in 1..(SOFT_LENGTH_CAP + 1) |-> "a"]

NextUnpunctuated ==
  \/ \E pcm \in FramePayloads : frameSeq < 2 /\ ReceiveFrame(pcm)
  \/ \E t \in pendingSilence : SilenceTimerFire(t)
  \/ Close
  \/ Tick
  \/ \E p \in PipeIds : ToFileDone(p)
  \/ \E p \in PipeIds : ToFileFail(p)
  \/ \E p \in PipeIds : \E tr \in Transcripts : SttDone(p, tr)
  \/ \E p \in PipeIds : SttFail(p)
  \/ \E p \in PipeIds : \E reply \in Divisions(Unpunctuated, MaxTokens) : GenDone(p, reply)
  \/ \E p \in PipeIds : GenFail(p)
  \/ \E p \in PipeIds : StreamChunk(p)
  \/ \E p \in PipeIds : StreamFail(p)
  \/ \E p \in PipeIds : StreamEnd(p)
  \/ \E p \in PipeIds : \E len \in TtsLengths : TtsDone(p, len)
  \/ \E p \in PipeIds : TtsFail(p)
  \/ \E o \in pendingRelease : ReleaseTimerFire(o)

SpecUnpunctuated == Init /\ [][NextUnpunctuated]_vars

\* The same session when the client also sends greeting control messages.
NextGreeting ==
  \/ Next
  \/ ReceiveGreeting
  \/ \E g \in GreetIds : \E t \in GreetingReplies : GreetGenDone(g, t)
  \/ \E g \in GreetIds : GreetFail(g)
  \/ \E g \in GreetIds : GreetTtsDone(g)

SpecGreeting == Init /\ [][NextGreeting]_vars

\* The same session when the client's pauses never make a silence timeout
\* fire while an earlier utterance is still in the pipeline.
NoPipelineExecuting ==
  \A p \in DOMAIN pipes : pipes[p].pc \in {"done", "ignored", "failed", "unhandled"}

NextSerial ==
  \/ \E pcm \in FramePayloads : ReceiveFrame(pcm)
  \/ \E t \in pendingSilence : NoPipelineExecuting /\ SilenceTimerFire(t)
  \/ Close
  \/ Tick
  \/ \E p \in PipeIds : ToFileDone(p)
  \/ \E p \in PipeIds : ToFileFail(p)
  \/ \E p \in PipeIds : \E tr \in Transcripts : SttDone(p, tr)
  \/ \E p \in PipeIds : SttFail(p)
  \/ \E p \in PipeIds : \E reply \in Replies : GenDone(p, reply)
  \/ \E p \in PipeIds : GenFail(p)
  \/ \E p \in PipeIds : StreamChunk(p)
  \/ \E p \in PipeIds : StreamFail(p)
  \/ \E p \in PipeIds : StreamEnd(p)
  \/ \E p \in PipeIds : \E len \in TtsLengths : TtsDone(p, len)
  \/ \E p \in PipeIds : TtsFail(p)
  \/ \E o \in pendingRelease : ReleaseTimerFire(o)

SpecSerial == Init /\ [][NextSerial]_vars

\* ------------------------------------------- generation requests and history
\* Texts are modelled by their lengths.
TurnLengths == {3, 600}

MAX_HISTORY_TURNS == 5
MAX_MESSAGE_LENGTH == 500
ELLIPSIS_LENGTH == 3

SystemMessage == [role |-> "system", content |-> 0]

\* `content.length > MAX_MESSAGE_LENGTH ? content.substring(0, 500) + "..." : content`
Truncated(len) ==
  IF len > MAX_MESSAGE_LENGTH THEN MAX_MESSAGE_LENGTH + ELLIPSIS_LENGTH ELSE len

\* Array.prototype.slice(-n): the last n elements, and all of them for -0
SliceLast(s, n) ==
  IF n = 0 \/ n >= Len(s) THEN s ELSE SubSeq(s, Len(s) - n + 1, Len(s))

\* limitedHistory.forEach: a user and an assistant message per turn
RECURSIVE ChatTurnMessages(_)
ChatTurnMessages(ts) ==
  IF ts = <<>> THEN <<>>
  ELSE << [role |-> "user", content |-> Truncated(Head(ts).user)],
          [role |-> "assistant", content |-> Truncated(Head(ts).ai)] >>
       \o ChatTurnMessages(Tail(ts))

\* POST /chat: system prompt, the limited history, the new user text
ChatMessages(conversationHistory, userText) ==
  <<SystemMessage>>
    \o ChatTurnMessages(SliceLast(conversationHistory, MAX_HISTORY_TURNS))
    \o << [role |-> "user", content |-> userText] >>

\* session.history after the turns of earlier utterances
RECURSIVE SessionHistory(_)
SessionHistory(ts) ==
  IF ts = <<>> THEN <<>>
  ELSE << [role |-> "user", content |-> Head(ts).user],
          [role |-> "assistant", content |-> Head(ts).ai] >>
       \o SessionHistory(Tail(ts))

\* processAudioPipeline: `[{role: "system", ...}, ...session.history]`, after
\* the new user turn was pushed
PipelineMessages(sessionHistory, userText) ==
  <<SystemMessage>> \o sessionHistory
    \o << [role |-> "user", content |-> userText] >>

RequestUnchanged == UNCHANGED <<sessionVars, connVars, relayVars, uploadVars>>

\* A stored conversation belongs to one endpoint: the client of POST /chat
\* keeps it and sends it with every request, a voice session keeps its own.
\* One exchange over POST /chat; the client keeps the exchange as a new turn.
ChatPost(userText, aiText) ==
  /\ Len(turns) < MaxTurns
  /\ request.endpoint \in {"none", "chat"}
  /\ request' = [endpoint |-> "chat",
                 messages |-> ChatMessages(turns, userText)]
  /\ turns' = Append(turns, [user |-> userText, ai |-> aiText])
  /\ RequestUnchanged

\* One utterance of a voice session up to its completion: the user turn, the
\* generation request, the assistant turn.
SessionUtterance(userText, aiText) ==
  /\ Len(turns) < MaxTurns
  /\ request.endpoint \in {"none", "session"}
  /\ request' = [endpoint |-> "session",
                 messages |-> PipelineMessages(SessionHistory(turns), userText)]
  /\ turns' = Append(turns, [user |-> userText, ai |-> aiText])
  /\ RequestUnchanged

NextRequest ==
  \/ \E u \in TurnLengths : \E a \in TurnLengths : ChatPost(u, a)
  \/ \E u \in TurnLengths : \E a \in TurnLengths : SessionUtterance(u, a)

SpecRequest == Init /\ [][NextRequest]_vars

\* ------------------------------------------------- the session registry
DecimalDigits == << "0", "1", "2", "3", "4", "5", "6", "7", "8", "9" >>

\* Number.prototype.toString(): the decimal digits of n
RECURSIVE DecimalString(_)
DecimalString(n) ==
  IF n < 10 THEN << DecimalDigits[n + 1] >>
  ELSE DecimalString(n \div 10) \o << DecimalDigits[(n % 10) + 1] >>

\* Map.prototype.set and Map.prototype.delete
MapSet(m, k, v) == [x \in DOMAIN m \cup {k} |-> IF x = k THEN v ELSE m[x]]
MapDelete(m, k) == [x \in DOMAIN m \ {k} |-> m[x]]

\* The record a connection registers; `creator` is the connection whose
\* handler built it, and audioBuffer keeps, per frame, the connection it
\* arrived on.
NewSession(c) == [creator |-> c, audioBuffer |-> <<>>]

ConnUnchanged == UNCHANGED <<sessionVars, chatVars, relayVars, uploadVars>>

\* A millisecond passes.
ClockAdvance ==
  /\ clock < MaxClock
  /\ clock' = clock + 1
  /\ UNCHANGED <<connState, connSession, sessionMap, connFrames>>
  /\ ConnUnchanged

\* wss.on('connection'): `sessionId = Date.now().toString()`, sessions.set
Connect(c) ==
  /\ connState[c] = "none"
  /\ LET sessionId == DecimalString(clock) IN
       /\ connSession' = [connSession EXCEPT ![c] = sessionId]
       /\ sessionMap' = MapSet(sessionMap, sessionId, NewSession(c))
  /\ connState' = [connState EXCEPT ![c] = "open"]
  /\ UNCHANGED <<clock, connFrames>>
  /\ ConnUnchanged

\* ws.on('message') of connection c for a binary frame, up to the push:
\* `sessions.get(sessionId)`, return when absent.
ConnFrame(c) ==
  /\ connState[c] = "open"
  /\ connFrames < MaxConnFrames
  /\ connFrames' = connFrames + 1
  /\ LET sessionId == connSession[c] IN
       IF sessionId \in DOMAIN sessionMap
       THEN sessionMap' = [sessionMap EXCEPT
                             ![sessionId].audioBuffer = Append(@, c)]
       ELSE UNCHANGED sessionMap
  /\ UNCHANGED <<clock, connState, connSession>>
  /\ ConnUnchanged

\* ws.on('close') of connection c: sessions.delete(sessionId)
ConnClose(c) ==
  /\ connState[c] = "open"
  /\ connState' = [connState EXCEPT ![c] = "closed"]
  /\ sessionMap' = MapDelete(sessionMap, connSession[c])
  /\ UNCHANGED <<clock, connSession, connFrames>>
  /\ ConnUnchanged

NextConn ==
  \/ ClockAdvance
  \/ \E c \in ConnIds : Connect(c)
  \/ \E c \in ConnIds : ConnFrame(c)
  \/ \E c \in ConnIds : ConnClose(c)

SpecConn == Init /\ [][NextConn]_vars

\* ---------------------------------------------------- the realtime relay
\* One client connection of the relay server and its upstream socket.
FrameKinds == {"binary", "json", "text"}

\* Whether the listener receives a frame as a Buffer: always for a binary
\* frame; for a text frame it depends on the version of the ws package
\* (a Buffer since ws 8, a string before).
BufferForms(kind) == IF kind = "binary" THEN {TRUE} ELSE BOOLEAN

\* `msgStr.trim().startsWith('{')`
StartsWithBrace(kind) == kind = "json"

\* `{type: 'input_audio_buffer.append', audio: message.toString('base64')}`
AudioEvent(frame) ==
  [type |-> "input_audio_buffer.append", audio |-> [base64 |-> frame]]

SessionConfig == [type |-> "session.update"]

\* openaiWs.send hands a message to the socket only while it is open.
UpstreamSend(m) ==
  IF upstreamState = "open" THEN Append(toUpstream, m) ELSE toUpstream

\* Variant of AfterOpen that sends no session configuration.
AfterOpen_NoConfig(log) == log

\* openaiWs.on('open'): `openaiWs.send(JSON.stringify(sessionConfig))`
AfterOpen(log) == Append(log, SessionConfig)

\* The upstream channel sends its events as text frames.
UpstreamKinds == {"text"}

\* `data.toString()` passed to ws.send: a text frame carrying the text of a
\* text frame, or the UTF-8 decoding of a binary frame's bytes.
EventString(data) ==
  [kind |-> "text",
   payload |-> IF data.kind = "text" THEN data.payload
               ELSE [utf8 |-> data.payload]]

\* Variant of ClientSend that sends the event twice.
ClientSend_Twice(m) ==
  IF clientState = "open" THEN Append(Append(toClient, m), m) ELSE toClient

\* `if (ws.readyState === WebSocket.OPEN) ws.send(eventStr)`
ClientSend(m) ==
  IF clientState = "open" THEN Append(toClient, m) ELSE toClient

RelayUnchanged == UNCHANGED <<sessionVars, chatVars, connVars, uploadVars>>

\* ws.on('message')
ClientFrame(kind, isBuffer) ==
  /\ clientState = "open"
  /\ clientFrames < MaxRelayFrames
  /\ clientFrames' = clientFrames + 1
  /\ LET frame == [kind |-> kind, id |-> clientFrames + 1]
         isString == ~isBuffer
     IN
     /\ fromClient' = Append(fromClient, frame)
     /\ IF ~isOpenAIConnected
       THEN UNCHANGED toUpstream
       ELSE IF isBuffer \/ (~isString /\ ~StartsWithBrace(kind))
       THEN toUpstream' = UpstreamSend(AudioEvent(frame))
       ELSE IF StartsWithBrace(kind)
       THEN toUpstream' = UpstreamSend(frame)
       ELSE UNCHANGED toUpstream
  /\ UNCHANGED <<clientState, upstreamState, isOpenAIConnected, toClient,
                 closeCalls, upstreamCloses, fromUpstream>>
  /\ RelayUnchanged

\* openaiWs.on('open')
UpstreamOpen ==
  /\ upstreamState = "connecting"
  /\ upstreamState' = "open"
  /\ isOpenAIConnected' = TRUE
  /\ toUpstream' = AfterOpen(toUpstream)
  /\ UNCHANGED <<clientState, toClient, closeCalls, upstreamCloses,
                 clientFrames, fromClient, fromUpstream>>
  /\ RelayUnchanged

\* openaiWs.on('message')
UpstreamMessage(kind) ==
  /\ upstreamState = "open"
  /\ Len(fromUpstream) < MaxRelayFrames
  /\ LET data == [kind |-> kind, payload |-> Len(fromUpstream) + 1] IN
       /\ fromUpstream' = Append(fromUpstream, data)
       /\ toClient' = ClientSend(EventString(data))
  /\ UNCHANGED <<clientState, upstreamState, isOpenAIConnected, toUpstream,
                 closeCalls, upstreamCloses, clientFrames, fromClient>>
  /\ RelayUnchanged

\* The upstream socket closes: the connection attempt failed ('error', which
\* is only logged, then 'close'), the peer closed it, or the relay's own
\* close completed.  openaiWs.on('close'): `ws.close()` when the client is
\* open.
UpstreamClose ==
  /\ upstreamState \in {"connecting", "open", "closing"}
  /\ upstreamState' = "closed"
  /\ upstreamCloses' = upstreamCloses + 1
  /\ IF clientState = "open"
     THEN /\ clientState' = "closing"
          /\ closeCalls' = Append(closeCalls, <<>>)
     ELSE UNCHANGED <<clientState, closeCalls>>
  /\ UNCHANGED <<isOpenAIConnected, toUpstream, toClient, clientFrames,
                 fromClient, fromUpstream>>
  /\ RelayUnchanged

\* The client socket closes: the client left or the relay's close completed.
\* ws.on('close'): `openaiWs.close()` when the upstream socket is open.
ClientClose ==
  /\ clientState \in {"open", "closing"}
  /\ clientState' = "closed"
  /\ upstreamState' = IF upstreamState = "open" THEN "closing" ELSE upstreamState
  /\ UNCHANGED <<isOpenAIConnected, toUpstream, toClient, closeCalls,
                 upstreamCloses, clientFrames, fromClient, fromUpstream>>
  /\ RelayUnchanged

NextRelay ==
  \/ \E kind \in FrameKinds : \E isBuffer \in BufferForms(kind) :
       ClientFrame(kind, isBuffer)
  \/ UpstreamOpen
  \/ \E kind \in UpstreamKinds : UpstreamMessage(kind)
  \/ UpstreamClose
  \/ ClientClose

SpecRelay == Init /\ [][NextRelay]_vars

\* ------------------------------------------- ws.on('message'), text frames
\* A text frame: whether JSON.parse accepts it, and the value it yields.
ControlTexts ==
  { [parses |-> FALSE, data |-> [value |-> "none"]],
    [parses |-> TRUE, data |-> [value |-> "null"]],
    [parses |-> TRUE, data |-> [type |-> "config"]],
    [parses |-> TRUE, data |-> [type |-> "config", topic |-> ""]],
    [parses |-> TRUE, data |-> [type |-> "config", topic |-> "travel"]],
    [parses |-> TRUE, data |-> [type |-> "config", topic |-> "food"]],
    [parses |-> TRUE, data |-> [type |-> "status"]] }

\* `data.type` throws for a value that has no properties.
PropertyReadThrows(text) == text.parses /\ text.data = [value |-> "null"]

\* The catch block is entered: JSON.parse threw, or reading data.type did.
InvalidJson(text) == ~text.parses \/ PropertyReadThrows(text)

\* Variant of HasTopic that accepts the empty topic.
HasTopic_AnyString(data) == "topic" \in DOMAIN data

\* `if (data.topic)`
HasTopic(data) == "topic" \in DOMAIN data /\ data.topic # ""

\* `\nThe current topic is: ${data.topic}`
TopicContext(topic) == << "\nThe current topic is: ", topic >>

\* Variant of SentAfterInvalidJson that tells the client.
SentAfterInvalidJson_Notified == Send(sent, Msg("error", 0, <<>>))

\* catch (e): `console.error(...)` only
SentAfterInvalidJson == sent

\* ws.on('message') for a text frame other than a greeting.
ReceiveText(text) ==
  /\ inSessions
  /\ Len(texts) < MaxTexts
  /\ texts' = Append(texts, text)
  /\ IF InvalidJson(text)
     THEN /\ sent' = SentAfterInvalidJson
          /\ UNCHANGED systemPrompt
     ELSE /\ systemPrompt' =
               IF text.data.type = "config" /\ HasTopic(text.data)
               THEN BASE_SYSTEM_PROMPT \o TopicContext(text.data.topic)
               ELSE systemPrompt
          /\ UNCHANGED sent
  /\ UNCHANGED <<inSessions, history, audioBuffer, isSpeaking, isAiSpeaking,
                 silenceTimer, pendingSilence, pendingRelease, pipes, greets,
                 frameSeq, recordingMs>>
  /\ UNCHANGED outsideSession

\* A session with one utterance that also receives text frames.
NextControl ==
  \/ \E text \in ControlTexts : ReceiveText(text)
  \/ \E pcm \in FramePayloads : frameSeq < 2 /\ ReceiveFrame(pcm)
  \/ \E t \in pendingSilence : SilenceTimerFire(t)
  \/ Close
  \/ Tick
  \/ \E p \in PipeIds : ToFileDone(p)
  \/ \E p \in PipeIds : ToFileFail(p)
  \/ \E p \in PipeIds : \E tr \in Transcripts : SttDone(p, tr)
  \/ \E p \in PipeIds : SttFail(p)
  \/ \E p \in PipeIds : \E reply \in Replies : GenDone(p, reply)
  \/ \E p \in PipeIds : GenFail(p)
  \/ \E p \in PipeIds : StreamChunk(p)
  \/ \E p \in PipeIds : StreamFail(p)
  \/ \E p \in PipeIds : StreamEnd(p)
  \/ \E p \in PipeIds : \E len \in TtsLengths : TtsDone(p, len)
  \/ \E p \in PipeIds : TtsFail(p)
  \/ \E o \in pendingRelease : ReleaseTimerFire(o)

SpecControl == Init /\ [][NextControl]_vars

\* ------------------------------------------------------- POST /transcribe
MAX_FILE_SIZE == 5 * 1024 * 1024
MIN_FILE_SIZE == 1000

UploadSizes ==
  { 0, MIN_FILE_SIZE - 1, MIN_FILE_SIZE, MIN_FILE_SIZE + 1, 32000,
    MAX_FILE_SIZE - 1, MAX_FILE_SIZE, MAX_FILE_SIZE + 1 }

\* What the original name or the mimetype of the upload mentions.
UploadFormats == {"ogg", "opus", "flac", "mp3", "m4a", "wav", "none"}

\* multer.memoryStorage(): the file has a size and a buffer, and no path.
MemoryStorageFile(size, format) ==
  [present |-> TRUE, size |-> size, format |-> format, buffer |-> TRUE]

UploadedFiles ==
  {NoFile} \cup { MemoryStorageFile(size, format) :
                    size \in UploadSizes, format \in UploadFormats }

\* The extension chosen from the original name or the mimetype.
FileExtension(format) ==
  IF format \in {"ogg", "opus"} THEN "ogg"
  ELSE IF format = "flac" THEN "flac"
  ELSE IF format = "mp3" THEN "mp3"
  ELSE IF format = "m4a" THEN "m4a"
  ELSE "wav"

\* fs.unlinkSync(req.file.path) throws a TypeError when the path is undefined.
UnlinkThrows(file) == "path" \notin DOMAIN file

\* catch (e): `res.status(500).json({ error: e.message })`
ServerError(message) == [status |-> 500, body |-> message]
ClientError(message) == [status |-> 400, body |-> message]

\* The rejection of a file whose size is out of range: clean-up, then the
\* client-error response.
RejectAfterCleanUp(file, message) ==
  IF UnlinkThrows(file) THEN ServerError("ERR_INVALID_ARG_TYPE")
  ELSE ClientError(message)

UploadUnchanged == UNCHANGED <<sessionVars, chatVars, connVars, relayVars>>

\* The handler up to its first await.
PostTranscribe(file) ==
  /\ upPc = "idle"
  /\ upFile' = file
  /\ IF ~file.present
     THEN /\ upResponse' = ClientError("No audio file uploaded")
          /\ upPc' = "done"
     ELSE IF file.size > MAX_FILE_SIZE
     THEN /\ upResponse' = RejectAfterCleanUp(file, "File too large")
          /\ upPc' = "done"
     ELSE IF file.size < MIN_FILE_SIZE
     THEN /\ upResponse' =
               RejectAfterCleanUp(file,
                 "Audio file appears to be empty or corrupted")
          /\ upPc' = "done"
     ELSE /\ upPc' = "toFile"
          /\ UNCHANGED upResponse
  /\ UNCHANGED upCalls
  /\ UploadUnchanged

\* OpenAI.toFile resolved: transcriptions.create is called.
UploadToFileDone ==
  /\ upPc = "toFile"
  /\ upPc' = "stt"
  /\ upCalls' = Append(upCalls,
                  [call |-> "audio.transcriptions.create",
                   file |-> FileExtension(upFile.format)])
  /\ UNCHANGED <<upFile, upResponse>>
  /\ UploadUnchanged

\* An awaited call rejected.
UploadFail ==
  /\ upPc \in {"toFile", "stt"}
  /\ upPc' = "done"
  /\ upResponse' = ServerError("e.message")
  /\ UNCHANGED <<upFile, upCalls>>
  /\ UploadUnchanged

\* transcriptions.create resolved: `res.json({ text })`
UploadSttDone ==
  /\ upPc = "stt"
  /\ upPc' = "done"
  /\ upResponse' = [status |-> 200, body |-> "text"]
  /\ UNCHANGED <<upFile, upCalls>>
  /\ UploadUnchanged

NextUpload ==
  \/ \E file \in UploadedFiles : PostTranscribe(file)
  \/ UploadToFileDone
  \/ UploadFail
  \/ UploadSttDone

SpecUpload == Init /\ [][NextUpload]_vars

TypeOK ==
  /\ inSessions \in BOOLEAN /\ isSpeaking \in BOOLEAN
  /\ upFile \in UploadedFiles
  /\ upPc \in {"idle", "toFile", "stt", "done"}
  /\ upResponse.status \in {0, 200, 400, 500}
  /\ Len(upCalls) <= 1
  /\ isAiSpeaking \in BOOLEAN
  /\ silenceTimer \in 0..MaxFrames
  /\ pendingSilence \subseteq 1..MaxFrames
  /\ frameSeq \in 0..MaxFrames
  /\ Len(pipes) <= MaxFrames \div 2

\* ================================================================ properties
FrameIds(frames) == { frames[i].id : i \in DOMAIN frames }
UtteranceIds(p) == FrameIds(pipes[p].audioData)
BufferedIds == FrameIds(audioBuffer) \cup UNION { UtteranceIds(p) : p \in DOMAIN pipes }

FrameArrives == frameSeq' = frameSeq + 1
FrameAccepted == FrameArrives /\ Len(audioBuffer') = Len(audioBuffer) + 1
SilenceTimerFires == frameSeq' = frameSeq /\ pendingSilence' # pendingSilence

Executing(p) == pipes[p].pc \in {"toFile", "stt", "gen", "stream", "tts", "ttsFinal"}

\* C1: a binary frame that arrives while isAiSpeaking is true changes nothing
\* of the session: the buffer, isSpeaking, the silence timer and the messages
\* sent stay as they were, whatever the frame's samples.
C1_GateDropsFrame ==
  [][ (FrameArrives /\ isAiSpeaking) =>
        UNCHANGED <<inSessions, history, audioBuffer, isSpeaking, isAiSpeaking,
                    silenceTimer, pendingSilence, pendingRelease, pipes,
                    greets, sent, recordingMs>> ]_vars

\* A frame of a live session was dropped: it is in no buffer and no utterance.
C1_Witness ==
  /\ inSessions
  /\ isAiSpeaking
  /\ \E id \in 1..frameSeq : id \notin BufferedIds

\* C2: at most one silence timeout is pending in the event loop, and the
\* session's handle names it exactly: null when none is pending.
C2_OneSilenceTimer ==
  /\ Cardinality(pendingSilence) <= 1
  /\ silenceTimer = 0 => pendingSilence = {}
  /\ silenceTimer # 0 => pendingSilence = {silenceTimer}

\* A timer is armed again after an earlier one fired.
C2_Witness ==
  /\ pendingSilence # {}
  /\ Len(sent[0]) >= 3

\* C3: at most one invocation of processAudioPipeline is between its hand-off
\* and its completion or failure.
C3_OnePipelineAtATime ==
  Cardinality({ p \in DOMAIN pipes : Executing(p) }) <= 1

\* C4: history is a sequence of (user, assistant) pairs, each pair belonging
\* to one utterance.
C4_HistoryAlternates ==
  \A i \in DOMAIN history :
    /\ history[i].role = (IF i % 2 = 1 THEN "user" ELSE "assistant")
    /\ i % 2 = 0 => history[i].utt = history[i - 1].utt

\* C5: once an audio chunk of a reply was sent, isAiSpeaking stays true until
\* the release timeout scheduled after that reply's stream-end marker fires.
AudioSent(p) == \E i \in DOMAIN sent[p] : sent[p][i].type = "audio"

ReplyPlaying(p) ==
  \/ pipes[p].pc \in {"stream", "tts", "ttsFinal"}
  \/ pipes[p].pc = "done" /\ p \in pendingRelease

C5_GateHeldThroughReply ==
  \A p \in DOMAIN pipes : (AudioSent(p) /\ ReplyPlaying(p)) => isAiSpeaking

\* C6: an utterance that reached speech-start is handed to the pipeline at the
\* latest when MAX_RECORDING_MS have passed: isSpeaking never outlasts it.
C6_RecordingBounded ==
  isSpeaking => recordingMs <= MAX_RECORDING_MS

\* C7: vad.speech_start and vad.speech_end are sent strictly in turn, starting
\* with a start, and isSpeaking is true exactly between a start and its end.
C7_OneSpeechStart ==
  /\ \A i \in DOMAIN sent[0] :
       sent[0][i].type =
         (IF i % 2 = 1 THEN "vad.speech_start" ELSE "vad.speech_end")
  /\ isSpeaking <=> (Len(sent[0]) % 2 = 1)

\* Two consecutive speech frames were accepted and one start was sent.
C7_Witness ==
  /\ isSpeaking
  /\ Len(sent[0]) = 1
  /\ Len(audioBuffer) >= 2
  /\ IsSpeech(audioBuffer[1].pcm) /\ IsSpeech(audioBuffer[2].pcm)

\* C8: a frame classified as speech while a silence timeout is pending removes
\* the timeout from the event loop for good; isSpeaking stays true, no
\* vad.speech_end is sent and no pipeline starts.  A handle once issued and no
\* longer pending never becomes pending again.
C8_SpeechCancelsTimer ==
  [][ /\ (FrameAccepted /\ IsSpeech(audioBuffer'[Len(audioBuffer')].pcm)
            /\ silenceTimer # 0) =>
          /\ pendingSilence' = {}
          /\ silenceTimer' = 0
          /\ isSpeaking /\ isSpeaking'
          /\ sent' = sent
          /\ pipes' = pipes
      /\ \A t \in 1..frameSeq : t \notin pendingSilence => t \notin pendingSilence'
    ]_vars

\* speech, silence (arming the timer), speech (cancelling it)
C8_Witness ==
  /\ pendingSilence = {}
  /\ isSpeaking
  /\ \E i \in 1..(Len(audioBuffer) - 2) :
       /\ IsSpeech(audioBuffer[i].pcm)
       /\ ~IsSpeech(audioBuffer[i + 1].pcm)
       /\ IsSpeech(audioBuffer[i + 2].pcm)

\* C9: the firing of a silence timeout sets isSpeaking to false, clears the
\* handle, sends exactly one vad.speech_end and nothing else, and starts
\* exactly one pipeline invocation, on the frames buffered so far (for a
\* session already deleted the invocation returns at once).
C9_TimerFireHandsOff ==
  [][ SilenceTimerFires =>
        /\ ~isSpeaking'
        /\ silenceTimer' = 0
        /\ pendingSilence' = {}
        /\ sent' = [sent EXCEPT ![0] = Append(@, Msg("vad.speech_end", 0, <<>>))]
        /\ \A p \in DOMAIN pipes : pipes'[p] = pipes[p]
        /\ IF inSessions
           THEN /\ audioBuffer # <<>>
                /\ Len(pipes') = Len(pipes) + 1
                /\ pipes'[Len(pipes')].audioData = audioBuffer
                /\ pipes'[Len(pipes')].pc = "toFile"
           ELSE pipes' = pipes
    ]_vars

\* A timer fired in a live session and its utterance is in the pipeline.
C9_Witness ==
  /\ inSessions
  /\ Len(sent[0]) = 2
  /\ Len(pipes) = 1
  /\ pipes[1].pc = "toFile"

\* C10: the frames of an utterance are those that had arrived at its
\* hand-off; every frame accepted later is in a later utterance or in the
\* buffer, and none of the handed-off frames is.
C10_HandOffClearsBuffer ==
  \A p \in DOMAIN pipes :
    /\ \A a \in UtteranceIds(p) : a <= pipes[p].handOffSeq
    /\ \A b \in FrameIds(audioBuffer) : b > pipes[p].handOffSeq
    /\ \A q \in DOMAIN pipes :
         q > p => \A b \in UtteranceIds(q) : b > pipes[p].handOffSeq

\* Frames are accumulating while an earlier utterance is still in flight.
C10_Witness ==
  \E p \in DOMAIN pipes :
    /\ Executing(p)
    /\ audioBuffer # <<>>
    /\ pipes[p].audioData # <<>>

\* C11: an invocation one of whose external calls rejected has stopped in its
\* catch block and the last message about its utterance is the error
\* notification: nothing was synthesized, sent or appended after the failure.
C11_FailureAborts ==
  \A p \in DOMAIN pipes :
    pipes[p].failures # {} =>
      /\ pipes[p].pc = "failed"
      /\ sent[p] # <<>>
      /\ sent[p][Len(sent[p])].type = "error"

\* C12: whenever isAiSpeaking is true it becomes false again.  The step that
\* completes a reply leaves the flag as it is and leaves a release timeout
\* pending for the reply; the step that enters the catch block clears the flag.
Completes(p) == pipes[p].pc # "done" /\ pipes'[p].pc = "done"
Fails(p) == pipes[p].pc # "failed" /\ pipes'[p].pc = "failed"

C12_GateEventuallyReleased ==
  /\ isAiSpeaking ~> ~isAiSpeaking
  /\ [][ \A p \in DOMAIN pipes :
           /\ Completes(p) =>
                /\ isAiSpeaking' = isAiSpeaking
                /\ p \notin pendingRelease /\ p \in pendingRelease'
           /\ Fails(p) => ~isAiSpeaking'
       ]_vars

\* The gate is open again after a token stream that failed part-way.
C12_Witness ==
  \E p \in DOMAIN pipes :
    /\ pipes[p].pc = "failed"
    /\ "stream" \in pipes[p].failures
    /\ pipes[p].fullText # <<>>
    /\ ~isAiSpeaking

\* C13: an utterance whose generation request or token stream failed has no
\* assistant turn in history, and no step removes, changes or reorders a turn:
\* history only grows at its end.
GenerationFailed(p) == pipes[p].failures \cap {"gen", "stream"} # {}

C13_FailedGenerationKeepsHistory ==
  /\ [](\A p \in DOMAIN pipes :
          GenerationFailed(p) =>
            \A i \in DOMAIN history :
              ~(history[i].role = "assistant" /\ history[i].utt = p))
  /\ [][ /\ Len(history') >= Len(history)
         /\ SubSeq(history', 1, Len(history)) = history
         /\ \A p \in DOMAIN pipes : Fails(p) => history' = history
       ]_vars

\* The second utterance's token stream failed after part of the reply had
\* arrived; the first utterance's pair and the second user turn are in history.
C13_Witness ==
  \E p \in DOMAIN pipes :
    /\ "stream" \in pipes[p].failures
    /\ pipes[p].fullText # <<>>
    /\ Len(history) = 3
    /\ history[3].utt = p
    /\ history[2].role = "assistant"

\* C14: an utterance whose trimmed transcript has fewer than
\* MIN_TRANSCRIPT_LEN characters ends at the transcript check: nothing about
\* it is ever sent, no synthesis is requested, history has no turn of it, and
\* the step that ends it changes neither history, the messages sent,
\* isAiSpeaking nor the pending release timeouts.
Transcribed(p) ==
  /\ pipes[p].pc \notin {"toFile", "stt", "unhandled"}
  /\ "stt" \notin pipes[p].failures

C14_ShortTranscriptSilent ==
  /\ [](\A p \in DOMAIN pipes :
          (Transcribed(p) /\ Len(pipes[p].userText) < 2) =>
            /\ pipes[p].pc = "ignored"
            /\ sent[p] = <<>>
            /\ pipes[p].stream = <<>> /\ pipes[p].fullText = <<>>
            /\ pipes[p].ttsCalls = <<>>
            /\ \A i \in DOMAIN history : history[i].utt # p)
  /\ [][ \A p \in DOMAIN pipes :
           (pipes[p].pc = "stt" /\ pipes'[p].pc = "ignored") =>
             UNCHANGED <<history, sent, isAiSpeaking, pendingRelease>>
       ]_vars

\* A one-character transcript was ignored while an earlier reply was playing.
C14_Witness ==
  \E p \in DOMAIN pipes :
    /\ pipes[p].pc = "ignored"
    /\ Len(pipes[p].userText) = 1
    /\ isAiSpeaking
    /\ history # <<>>

\* C15: for the reply "Hello! How are you?", however it is divided into
\* tokens, speech.create is called for "Hello!" and then for " How are you?"
\* and for nothing else; assistant.audio.start is sent at most once and never
\* after an audio chunk of the utterance, and exactly once, ahead of all its
\* audio, when the utterance completes without a synthesis failure.
HelloUnits ==
  << << "H", "e", "l", "l", "o", "!" >>,
     << " ", "H", "o", "w", " ", "a", "r", "e", " ", "y", "o", "u", "?" >> >>

StartMarkers(p) ==
  { i \in DOMAIN sent[p] : sent[p][i].type = "assistant.audio.start" }

AudioChunks(p) == { i \in DOMAIN sent[p] : sent[p][i].type = "audio" }

C15_HelloSplit ==
  \A p \in DOMAIN pipes :
    /\ Len(pipes[p].ttsCalls) <= 2
    /\ pipes[p].ttsCalls = SubSeq(HelloUnits, 1, Len(pipes[p].ttsCalls))
    /\ pipes[p].pc = "done" => pipes[p].ttsCalls = HelloUnits
    /\ Cardinality(StartMarkers(p)) <= 1
    /\ \A i \in StartMarkers(p) : \A j \in AudioChunks(p) : i < j
    /\ (pipes[p].pc = "done" /\ "tts" \notin pipes[p].failures) =>
         /\ Cardinality(StartMarkers(p)) = 1
         /\ Cardinality(AudioChunks(p)) = 2 * NumChunks(5000)

\* The reply was completed without a failure: both units were synthesized
\* and their audio sent.
C15_Witness ==
  \E p \in DOMAIN pipes :
    /\ pipes[p].pc = "done"
    /\ pipes[p].failures = {}
    /\ pipes[p].ttsCalls = HelloUnits
    /\ Cardinality(StartMarkers(p)) = 1
    /\ Cardinality(AudioChunks(p)) = 4

\* C17: once the session was deleted no silence timeout is pending, and a
\* silence or release timeout that fires for a deleted session sends nothing
\* and starts no pipeline.
ReleaseTimerFires ==
  pendingRelease' # pendingRelease /\ pendingRelease' \subseteq pendingRelease

C17_TeardownCancelsTimers ==
  /\ [](~inSessions => pendingSilence = {})
  /\ [][ (~inSessions /\ (SilenceTimerFires \/ ReleaseTimerFires)) =>
           (sent' = sent /\ pipes' = pipes) ]_vars

\* C16: the messages of a generation request carry at most MAX_HISTORY_TURNS
\* turn-pairs of the stored conversation, between the system message and the
\* new user turn, whichever endpoint builds the request.
HistoryPairsIn(messages) ==
  Cardinality({ i \in DOMAIN messages : messages[i].role = "assistant" })

C16_RequestHistoryLimited ==
  request.endpoint # "none" =>
    /\ HistoryPairsIn(request.messages) <= MAX_HISTORY_TURNS
    /\ Len(request.messages) = 2 * HistoryPairsIn(request.messages) + 2
    /\ request.messages[1].role = "system"
    /\ request.messages[Len(request.messages)].role = "user"

\* C18: every open connection has a session record of its own: the record
\* under its sessionId exists, was created by it, holds frames of no other
\* connection, and no other open connection has the same sessionId.
C18_SessionsNotShared ==
  \A c \in ConnIds :
    connState[c] = "open" =>
      /\ connSession[c] \in DOMAIN sessionMap
      /\ sessionMap[connSession[c]].creator = c
      /\ \A i \in DOMAIN sessionMap[connSession[c]].audioBuffer :
           sessionMap[connSession[c]].audioBuffer[i] = c
      /\ \A d \in ConnIds \ {c} :
           connState[d] = "open" => connSession[d] # connSession[c]

\* C19: a close of the upstream socket that finds the client open, after
\* fewer than three earlier upstream closes, leaves the client open: the
\* relay does not call ws.close.
UpstreamCloses == upstreamCloses' = upstreamCloses + 1

C19_UpstreamFailureRetries ==
  [][ (UpstreamCloses /\ clientState = "open" /\ upstreamCloses < 3) =>
        (clientState' = "open" /\ closeCalls' = closeCalls) ]_vars

\* C20: the relay closes the client only at the fourth upstream failure, when
\* the three backoff delays have been used up, and then with a status code.
C20_ClosedAfterFourthFailure ==
  \A i \in DOMAIN closeCalls :
    /\ upstreamCloses >= 4
    /\ closeCalls[i] # <<>>

\* C21: a binary frame or JSON control frame that arrives from the client
\* while the upstream socket is open is passed upstream at once, once, after
\* everything passed before: the binary frame inside the append-audio event,
\* the JSON control frame as it is.
ClientFrameArrives == Len(fromClient') = Len(fromClient) + 1

ForwardedForm(frame) ==
  IF frame.kind = "binary" THEN AudioEvent(frame) ELSE frame

C21_ClientFramesForwarded ==
  [][ (/\ ClientFrameArrives
       /\ upstreamState = "open"
       /\ fromClient'[Len(fromClient')].kind \in {"binary", "json"}) =>
        toUpstream' =
          Append(toUpstream, ForwardedForm(fromClient'[Len(fromClient')]))
    ]_vars

\* C22: no frame of the client is lost: once the upstream socket is open,
\* every frame received from the client so far, those received while it was
\* still connecting included, has been passed upstream.
PassedUpstream(frame) ==
  \E i \in DOMAIN toUpstream :
    toUpstream[i] = frame \/ toUpstream[i] = AudioEvent(frame)

C22_NoClientFrameLost ==
  upstreamState = "open" =>
    \A i \in DOMAIN fromClient : PassedUpstream(fromClient[i])

\* C23: a frame that arrives from the upstream socket while the client is
\* open is sent to the client as it is, once, after everything sent before;
\* nothing else is ever sent to the client.
UpstreamFrameArrives == Len(fromUpstream') = Len(fromUpstream) + 1

ConfigsSent ==
  Cardinality({ i \in DOMAIN toUpstream : toUpstream[i] = SessionConfig })

C24_ConfigFirstAndOnce ==
  /\ toUpstream # <<>> => toUpstream[1] = SessionConfig
  /\ ConfigsSent = (IF isOpenAIConnected THEN 1 ELSE 0)
  /\ upstreamState = "connecting" => ConfigsSent = 0
  /\ upstreamState \in {"open", "closing"} => ConfigsSent = 1

\* A frame arrived before the socket opened, and after the configuration a
\* later frame of the client was passed upstream.
C24_Witness ==
  /\ Len(toUpstream) = 2
  /\ toUpstream[1] = SessionConfig
  /\ Len(fromClient) = 2

\* C25: when the client disconnects, an upstream socket that is connecting or
\* open is closed by the relay, and once the client is closed nothing more is
\* passed upstream or sent to the client.
ClientDisconnects == clientState = "open" /\ clientState' = "closed"

C25_ClosedIsTerminal ==
  [][ /\ (ClientDisconnects /\ upstreamState \in {"connecting", "open"}) =>
           upstreamState' \in {"closing", "closed"}
      /\ clientState = "closed" =>
           (toUpstream' = toUpstream /\ toClient' = toClient)
    ]_vars

\* C26: no invocation of the pipeline ends in a rejection that nothing
\* handles: every failure is caught inside the invocation.
C26_NoUnhandledRejection ==
  \A p \in DOMAIN pipes : pipes[p].pc # "unhandled"

\* C27: a text frame that JSON.parse rejects changes nothing but the count of
\* frames received: the session stays registered, its history, buffer,
\* flags, timers, system prompt and pipeline invocations stay as they were,
\* and nothing is sent.
TextArrives == Len(texts') = Len(texts) + 1

C27_InvalidJsonIgnored ==
  [][ (TextArrives /\ ~texts'[Len(texts')].parses) =>
        UNCHANGED <<inSessions, history, audioBuffer, isSpeaking,
                    isAiSpeaking, silenceTimer, pendingSilence,
                    pendingRelease, pipes, greets, sent, frameSeq,
                    recordingMs, systemPrompt>> ]_vars

\* An unparseable text frame arrived while the user was speaking, after a
\* topic had been configured.
C27_Witness ==
  /\ Len(texts) = 2
  /\ ~texts[2].parses
  /\ systemPrompt # BASE_SYSTEM_PROMPT
  /\ isSpeaking
  /\ inSessions

\* C28 as stated: a config message with a non-empty topic appends the
\* topic's context to the session's current system prompt.
ConfigWithTopic(text) ==
  /\ ~InvalidJson(text)
  /\ text.data.type = "config"
  /\ "topic" \in DOMAIN text.data
  /\ text.data.topic # ""

C28_TopicAppendedToCurrentPrompt ==
  [][ (TextArrives /\ ConfigWithTopic(texts'[Len(texts')])) =>
        systemPrompt' =
          systemPrompt \o TopicContext(texts'[Len(texts')].data.topic) ]_vars

\* C28: the system prompt changes only when a config message with a
\* non-empty topic arrives, which sets it to the base prompt followed by that
\* topic's context; a config message changes nothing else of the session, and
\* no other step changes the system prompt.
C28_PromptSetByConfigOnly ==
  [][ /\ systemPrompt' # systemPrompt =>
           (TextArrives /\ ConfigWithTopic(texts'[Len(texts')]))
      /\ (TextArrives /\ ConfigWithTopic(texts'[Len(texts')])) =>
           systemPrompt' =
             BASE_SYSTEM_PROMPT
               \o TopicContext(texts'[Len(texts')].data.topic)
      /\ (TextArrives /\ ~InvalidJson(texts'[Len(texts')])
            /\ texts'[Len(texts')].data.type = "config") =>
           UNCHANGED <<inSessions, history, audioBuffer, isSpeaking,
                       isAiSpeaking, silenceTimer, pendingSilence,
                       pendingRelease, pipes, greets, sent, frameSeq,
                       recordingMs>>
    ]_vars

\* Two config messages with different topics arrived; the prompt carries the
\* second topic only.
C28_Witness ==
  /\ Len(texts) = 2
  /\ ConfigWithTopic(texts[1]) /\ ConfigWithTopic(texts[2])
  /\ texts[1].data.topic # texts[2].data.topic
  /\ systemPrompt = BASE_SYSTEM_PROMPT \o TopicContext(texts[2].data.topic)

\* C29: a request to POST /transcribe without a file, with a file of more
\* than 5 MB or with one of fewer than 1000 bytes is answered with status 400
\* and the message of its case, and no external call is made for it.
C29_BadUploadRejected ==
  upPc = "done" =>
    /\ ~upFile.present =>
         (upResponse = [status |-> 400, body |-> "No audio file uploaded"]
            /\ upCalls = <<>>)
    /\ (upFile.present /\ upFile.size > 5 * 1024 * 1024) =>
         (upResponse = [status |-> 400, body |-> "File too large"]
            /\ upCalls = <<>>)
    /\ (upFile.present /\ upFile.size < 1000) =>
         (upResponse = [status |-> 400,
                        body |-> "Audio file appears to be empty or corrupted"]
            /\ upCalls = <<>>)

\* C30: every text handed to speech synthesis holds one sentence: no run of
\* sentence punctuation in it is followed by more text, so a sentence is
\* never merged with a later one, however many boundaries one token carries.
C30_OneSentencePerUnit ==
  \A p \in DOMAIN pipes :
    \A i \in DOMAIN pipes[p].ttsCalls :
      LET unit == pipes[p].ttsCalls[i] IN
      \A j \in 1..(Len(unit) - 1) :
        (unit[j] \in {".", "!", "?", "\n"})
          => (unit[j + 1] \in {".", "!", "?", "\n"})

\* C31: when the token stream of a reply without sentence punctuation ends
\* and the reply is longer than the soft length cap, synthesis of a unit of
\* that reply was already started inside the token loop.
C31_LongReplyCutBeforeStreamEnd ==
  \A p \in DOMAIN pipes :
    ( /\ pipes[p].pc = "stream"
      /\ pipes[p].stream = <<>>
      /\ Len(pipes[p].fullText) > 50
      /\ \A i \in DOMAIN pipes[p].fullText :
           pipes[p].fullText[i] \notin {".", "!", "?", "\n"} )
      => pipes[p].ttsCalls # <<>>

AssistantTurns(p) ==
  { i \in DOMAIN history :
      history[i].role = "assistant" /\ history[i].utt = p }

EndMarkers(p) ==
  { i \in DOMAIN sent[p] : sent[p][i].type = "assistant.audio.end" }

\* An utterance that completed has one assistant turn, holding the full reply,
\* and one assistant.audio.end, the last message about it; an utterance that
\* has not completed has neither.
ReplyRecordedOnce ==
  \A p \in DOMAIN pipes :
    IF pipes[p].pc = "done"
    THEN /\ Cardinality(AssistantTurns(p)) = 1
         /\ \A i \in AssistantTurns(p) : history[i].content = pipes[p].fullText
         /\ EndMarkers(p) = { Len(sent[p]) }
    ELSE AssistantTurns(p) = {} /\ EndMarkers(p) = {}

\* The step taken when the token stream has ended: a remainder that is not
\* blank is handed to speech synthesis, whole, before the utterance completes;
\* a blank one is not.
RemainderStep ==
  \A p \in DOMAIN pipes :
    ( /\ pipes[p].pc = "stream" /\ pipes[p].stream = <<>>
      /\ pipes'[p].pc \in {"ttsFinal", "done"} )
      => IF Trim(pipes[p].sentenceBuffer) # <<>>
         THEN /\ pipes'[p].pc = "ttsFinal"
              /\ pipes'[p].ttsCalls =
                   Append(pipes[p].ttsCalls, pipes[p].sentenceBuffer)
         ELSE /\ pipes'[p].pc = "done"
              /\ pipes'[p].ttsCalls = pipes[p].ttsCalls

\* C32: when the token stream of an utterance has ended, a remainder that is
\* not blank is synthesized; then the full reply is appended as exactly one
\* assistant turn and exactly one assistant.audio.end is sent, after which no
\* message, audio chunk or other, is sent for the utterance.
C32_ReplyCompletion == []ReplyRecordedOnce /\ [][RemainderStep]_vars

\* An utterance completed after its remainder was synthesized: the remainder's
\* audio was sent, then the end marker, and the turn was recorded.
C32_Witness ==
  \E p \in DOMAIN pipes :
    /\ pipes[p].pc = "done"
    /\ pipes[p].failures = {}
    /\ pipes[p].ttsCalls # <<>>
    /\ pipes[p].ttsCalls[Len(pipes[p].ttsCalls)] =
         << " ", "O", "k", ".", " ", "G", "o", "?" >>
    /\ Cardinality(AssistantTurns(p)) = 1
    /\ Len(sent[p]) > 1
    /\ sent[p][Len(sent[p]) - 1].type = "audio"

\* The frames of a list are in arrival order, each once.
InArrivalOrder(frames) ==
  \A i, j \in DOMAIN frames : i < j => frames[i].id < frames[j].id

\* No frame is in two utterances, or in an utterance and in the buffer, and
\* every list holds its frames once, in arrival order.
FramesPlacedOnce ==
  /\ InArrivalOrder(audioBuffer)
  /\ \A p \in DOMAIN pipes :
       /\ InArrivalOrder(pipes[p].audioData)
       /\ UtteranceIds(p) \cap FrameIds(audioBuffer) = {}
       /\ \A q \in DOMAIN pipes :
            q # p => UtteranceIds(p) \cap UtteranceIds(q) = {}

HandOff == Len(pipes') > Len(pipes)

\* A frame that arrives at a live session whose gate is open is appended to
\* the buffer as received; a hand-off gives the whole buffer, in order, to one
\* new utterance and empties it; nothing else changes the buffer or the audio
\* of an utterance.
BufferStep ==
  /\ (FrameArrives /\ inSessions /\ ~isAiSpeaking) =>
       \E pcm \in FramePayloads :
         audioBuffer' = Append(audioBuffer, [id |-> frameSeq', pcm |-> pcm])
  /\ HandOff =>
       /\ Len(pipes') = Len(pipes) + 1
       /\ pipes'[Len(pipes')].audioData = audioBuffer
       /\ audioBuffer' = <<>>
  /\ ~(FrameArrives /\ inSessions /\ ~isAiSpeaking) /\ ~HandOff =>
       UNCHANGED audioBuffer
  /\ \A p \in DOMAIN pipes : pipes'[p].audioData = pipes[p].audioData

\* C33: every binary frame a live session receives while the echo gate is
\* open is appended to the utterance buffer unmodified, whether it is speech
\* or silence, of odd or even length, and whatever isSpeaking is; the audio
\* of an utterance is the buffer at its hand-off: the frames accepted since
\* the previous hand-off, in arrival order, none lost, repeated or placed in
\* two utterances.
C33_AcceptedFramesHandedOffOnce == []FramesPlacedOnce /\ [][BufferStep]_vars

\* An utterance of three frames was handed off whose first frame is a silent
\* frame of odd length, accepted while isSpeaking was false.
C33_Witness ==
  \E p \in DOMAIN pipes :
    /\ Len(pipes[p].audioData) = 3
    /\ pipes[p].audioData[1].pcm = Quiet
    /\ ByteLength(pipes[p].audioData[1].pcm) % 2 = 1
    /\ pipes[p].audioData[2].pcm = Loud
    /\ audioBuffer = <<>>

\* The frame's RMS is VAD_THRESHOLD exactly.
RmsEqualsThreshold(pcm) ==
  /\ ByteLength(pcm) \div 2 # 0
  /\ ScaledHigh(pcm) = ThresholdHigh(pcm)
  /\ ScaledLow(pcm) = 0

\* C34: a frame whose RMS equals the threshold, accepted by a live session,
\* is treated as speech: it leaves isSpeaking true, sends vad.speech_start
\* when isSpeaking was false, and cancels an armed silence timer.
C34_ThresholdFrameIsSpeech ==
  [][ ( /\ FrameAccepted
        /\ RmsEqualsThreshold(audioBuffer'[Len(audioBuffer')].pcm) )
      => /\ isSpeaking'
         /\ ~isSpeaking =>
              /\ Len(sent'[0]) = Len(sent[0]) + 1
              /\ sent'[0][Len(sent'[0])].type = "vad.speech_start"
         /\ silenceTimer' = 0
         /\ silenceTimer # 0 => silenceTimer \notin pendingSilence' ]_vars

SpeechStarts(n) ==
  Cardinality({ i \in 1..n : sent[0][i].type = "vad.speech_start" })

SpeechEnds(n) ==
  Cardinality({ i \in 1..n : sent[0][i].type = "vad.speech_end" })

\* An armed silence timer means isSpeaking is true, and among the VAD
\* notifications sent so far every vad.speech_end follows a vad.speech_start
\* that no earlier vad.speech_end answered.
ArmedOnlyWhileSpeaking ==
  /\ silenceTimer # 0 => isSpeaking
  /\ pendingSilence # {} => isSpeaking
  /\ \A n \in DOMAIN sent[0] :
       sent[0][n].type = "vad.speech_end" =>
         SpeechStarts(n - 1) = SpeechEnds(n - 1) + 1

\* A timer is armed only by a step taken with isSpeaking true, and isSpeaking
\* becomes false only in the step in which the armed timer fires, which
\* leaves no timer armed.
SpeakingStep ==
  /\ (silenceTimer = 0 /\ silenceTimer' # 0) => (isSpeaking /\ isSpeaking')
  /\ (isSpeaking /\ ~isSpeaking') =>
       /\ SilenceTimerFires
       /\ silenceTimer # 0
       /\ silenceTimer' = 0
       /\ pendingSilence' = {}

\* C35: in every reachable state an armed silence timer implies that
\* isSpeaking is true: the timer is armed only while speaking, and isSpeaking
\* is set to false only by the firing of that timer, which disarms it; so no
\* vad.speech_end is sent without an unanswered vad.speech_start before it.
C35_ArmedImpliesSpeaking == []ArmedOnlyWhileSpeaking /\ [][SpeakingStep]_vars

\* A live session is speaking with its timer armed for the second time, after
\* the first timer fired and ended the first stretch of speech.
C35_Witness ==
  /\ inSessions
  /\ isSpeaking
  /\ silenceTimer # 0
  /\ silenceTimer \in pendingSilence
  /\ Len(sent[0]) = 3
  /\ sent[0][2].type = "vad.speech_end"

IsPrefix(u, s) == Len(u) <= Len(s) /\ SubSeq(s, 1, Len(u)) = u

\* `text` is the units in order, with nothing between, before or after them
\* but stretches of white space.
RECURSIVE BlanksRemoved(_, _)
BlanksRemoved(units, text) ==
  IF units = <<>> THEN \A i \in DOMAIN text : IsSpace(text[i])
  ELSE \E k \in 0..Len(text) :
         /\ \A i \in 1..k : IsSpace(text[i])
         /\ IsPrefix(Head(units), SubSeq(text, k + 1, Len(text)))
         /\ BlanksRemoved(Tail(units),
                          SubSeq(text, k + Len(Head(units)) + 1, Len(text)))

\* No text passed to synthesis is blank; for a completed utterance the texts
\* passed to synthesis are the full reply with blank stretches removed, and
\* the assistant turn holds the full reply.
UnitsCoverReply ==
  \A p \in DOMAIN pipes :
    /\ \A i \in DOMAIN pipes[p].ttsCalls : Trim(pipes[p].ttsCalls[i]) # <<>>
    /\ pipes[p].pc = "done" =>
         /\ BlanksRemoved(pipes[p].ttsCalls, pipes[p].fullText)
         /\ \E i \in DOMAIN history :
              /\ history[i].utt = p /\ history[i].role = "assistant"
              /\ history[i].content = pipes[p].fullText

\* Each token taken from the stream is appended to the full reply, and the
\* full reply changes in no other step once the stream has begun.
TokenStep ==
  \A p \in DOMAIN pipes :
    IF pipes[p].pc = "stream" /\ pipes[p].stream # <<>>
         /\ pipes'[p].stream = Tail(pipes[p].stream)
    THEN pipes'[p].fullText = pipes[p].fullText \o Head(pipes[p].stream)
    ELSE pipes[p].pc \in {"stream", "tts", "ttsFinal", "done"} =>
           pipes'[p].fullText = pipes[p].fullText

\* C36: however the reply is divided into tokens, the texts passed to
\* synthesis for an utterance, in call order, are the full reply with its
\* blank segments removed, no character twice and none skipped, and the reply
\* recorded in the history is the concatenation of the tokens received.
C36_UnitsCoverReply == []UnitsCoverReply /\ [][TokenStep]_vars

\* A reply was completed out of which a blank segment, the line break that
\* arrived as a token of its own, was dropped.
C36_Witness ==
  \E p \in DOMAIN pipes :
    /\ pipes[p].pc = "done"
    /\ pipes[p].fullText = << "A", ".", "\n", "B", ".", " " >>
    /\ pipes[p].ttsCalls = << << "A", "." >>, << "B", "." >> >>

\* C37: every audio chunk and every assistant.audio.end sent for an utterance
\* comes after an assistant.audio.start of that utterance.
C37_AudioBracketed ==
  \A p \in DOMAIN pipes :
    \A i \in DOMAIN sent[p] :
      sent[p][i].type \in {"audio", "assistant.audio.end"} =>
        \E j \in 1..(i - 1) : sent[p][j].type = "assistant.audio.start"

\* Once the client socket has closed, the upstream socket is closing or
\* closed.
UpstreamGoneWithClient ==
  clientState = "closed" => upstreamState \in {"closing", "closed"}

\* Once the client socket has closed, nothing more is sent upstream.
QuietAfterClient ==
  clientState = "closed" => toUpstream' = toUpstream

\* C38: no upstream connection of the relay outlives its client: from the
\* client's disconnect on, also when it comes while the upstream socket is
\* still connecting, the upstream socket is closing or closed and neither the
\* session configuration nor anything else is sent on it.
C38_UpstreamDoesNotOutliveClient ==
  []UpstreamGoneWithClient /\ [][QuietAfterClient]_vars

\* A call to an external service is started for utterance p: transcription,
\* generation or speech synthesis.
CallStarted(p) ==
  /\ pipes'[p].pc # pipes[p].pc
  /\ pipes'[p].pc \in {"stt", "gen", "tts", "ttsFinal"}

\* C39: once the session was deleted on the client's disconnect, no external
\* call is started for an utterance of it that was still in the pipeline, and
\* the state it left behind, its history and its echo gate, is not written.
C39_PipelineStopsAtDisconnect ==
  [][ ~inSessions =>
        /\ \A p \in DOMAIN pipes : ~CallStarted(p)
        /\ history' = history
        /\ isAiSpeaking' = isAiSpeaking ]_vars

====
